---- MODULE Spec2Model ----
(***************************************************************************)
(* A model of the leaky bucket of src/bucket.go (package leaky).           *)
(*                                                                         *)
(* Time is counted in ticks of the local clock: `now' is what time.Now()   *)
(* returns, a time.Time is the number of ticks since the Unix epoch and a  *)
(* time.Duration is a number of ticks.  The zero time.Time (year 1) lies   *)
(* before every instant the clock shows; it is the instant ZeroTime.       *)
(*                                                                         *)
(* A section of code that runs with b.lock held is one step: no other      *)
(* section that takes the lock can run inside it.  What a method does      *)
(* outside the lock (the read of b.value in Value and Remaining, the range *)
(* checks of Set) is a step of its own, so that callers interleave exactly *)
(* where the code lets them.  The clock reads of one locked section return *)
(* the same instant: a tick is far longer than the section runs.           *)
(*                                                                         *)
(* An int64 of the model is MaxInt64 wide, and the sum Add computes wraps   *)
(* around as Go's does.  Outside SpecWide the amounts, values and times    *)
(* are far below that limit: no sum or product wraps around there.         *)
(***************************************************************************)
EXTENDS Integers, Sequences, FiniteSets, TLC

\* ------------------------------------------------------------------ bounds

MaxDrainBy == 2
MaxInterval == 3
MaxCapacity == 3
MaxAmount == 2
MaxTime == 7
\* Ticks in one millisecond (the resolution of Time.UnixMilli).
TicksPerMilli == 2

DrainBys == 1..MaxDrainBy
Intervals == 1..MaxInterval
Capacities == 1..MaxCapacity
Amounts == (0 - MaxAmount)..MaxAmount
SetValues == (0 - 1)..(MaxCapacity + 1)

\* The goroutines that call the bucket's methods.
Callers == {"c1", "c2"}

\* The arguments NewBucket is called with: invalid ones too.
NewDrainBys == (0 - 1)..MaxDrainBy
NewIntervals == (0 - 1)..MaxInterval
NewCapacities == (0 - 1)..MaxCapacity

\* ------------------------------------------------------------------ values

Nil == "nil"
ErrBucketFull == "leaky: bucket full or would overflow"
ErrNeverDrains == "leaky: bucket never drains"
ErrNeverFills == "leaky: bucket can never fill"
ErrNegative == "leaky: bucket value cannot be negative"
ErrExceeds == "leaky: bucket value cannot exceed capacity"

\* The zero time.Time: whole milliseconds, before the epoch and before Init.
ZeroTime == (0 - 2) * TicksPerMilli

IsZero(t) == t = ZeroTime

\* The state of a sync.Mutex nobody holds; a held one is its holder's name.
Unlocked == "unlocked"

\* The Bucket struct.  Where a locked section is one step (Spec, SpecFixed,
\* SpecNew) the lock is free in every state; SpecLock takes and releases it
\* step by step.
Bucket(drainBy, drainInterval, capacity, v, last) ==
    [DrainBy |-> drainBy, DrainInterval |-> drainInterval, Capacity |-> capacity,
     value |-> v, lastDrain |-> last, lock |-> Unlocked]

NoBucket == Bucket(0, 0, 0, 0, ZeroTime)

\* ------------------------------------------------------- the methods' code

\* NewBucket that leaves lastDrain the zero time.
NewBucketZeroLastDrain(drainBy, drainEvery, capacity, t) ==
    IF drainBy <= 0 \/ drainEvery <= 0
    THEN [err |-> ErrNeverDrains, bucket |-> NoBucket]
    ELSE IF capacity <= 0
    THEN [err |-> ErrNeverFills, bucket |-> NoBucket]
    ELSE [err |-> Nil, bucket |-> Bucket(drainBy, drainEvery, capacity, 0, ZeroTime)]

\* NewBucket that accepts a drain interval of 0.
NewBucketAllowsZeroInterval(drainBy, drainEvery, capacity, t) ==
    IF drainBy <= 0 \/ drainEvery < 0
    THEN [err |-> ErrNeverDrains, bucket |-> NoBucket]
    ELSE IF capacity <= 0
    THEN [err |-> ErrNeverFills, bucket |-> NoBucket]
    ELSE [err |-> Nil, bucket |-> Bucket(drainBy, drainEvery, capacity, 0, t)]

\* NewBucket that accepts a capacity of 0.
NewBucketAllowsZeroCapacity(drainBy, drainEvery, capacity, t) ==
    IF drainBy <= 0 \/ drainEvery <= 0
    THEN [err |-> ErrNeverDrains, bucket |-> NoBucket]
    ELSE IF capacity < 0
    THEN [err |-> ErrNeverFills, bucket |-> NoBucket]
    ELSE [err |-> Nil, bucket |-> Bucket(drainBy, drainEvery, capacity, 0, t)]

\* NewBucket at instant t: the error and the bucket it returns.
NewBucket(drainBy, drainEvery, capacity, t) ==
    IF drainBy <= 0 \/ drainEvery <= 0
    THEN [err |-> ErrNeverDrains, bucket |-> NoBucket]
    ELSE IF capacity <= 0
    THEN [err |-> ErrNeverFills, bucket |-> NoBucket]
    ELSE [err |-> Nil, bucket |-> Bucket(drainBy, drainEvery, capacity, 0, t)]

\* A Bucket built as a struct literal: value and lastDrain are zero values.
LiteralBucket(drainBy, drainEvery, capacity) ==
    Bucket(drainBy, drainEvery, capacity, 0, ZeroTime)

\* Go's % on integers: the remainder has the sign of the dividend.
GoRem(a, m) == IF a >= 0 THEN a % m ELSE 0 - ((0 - a) % m)

\* Duration.Truncate: d rounded toward zero to a multiple of m; d when m <= 0.
Truncate(d, m) == IF m <= 0 THEN d ELSE d - GoRem(d, m)

\* Duration.Abs.
Abs(d) == IF d < 0 THEN 0 - d ELSE d

\* drain() without the clamp of a negative value to 0.
drainNoClamp(b, t) ==
    LET b1 == IF IsZero(b.lastDrain) THEN [b EXCEPT !.lastDrain = t] ELSE b
    IN  IF b1.value <= 0
        THEN [b1 EXCEPT !.value = 0, !.lastDrain = t]
        ELSE LET since == t - b1.lastDrain
                 drainTime == Truncate(since, b1.DrainInterval)
                 leaks == Abs(drainTime) \div Abs(b1.DrainInterval)
             IN  [b1 EXCEPT !.value = b1.value - b1.DrainBy * leaks,
                            !.lastDrain = t + ((since - drainTime) * (0 - 1))]

\* drain() that sets lastDrain to the instant of the drain.
drainDropsRemainder(b, t) ==
    LET b1 == IF IsZero(b.lastDrain) THEN [b EXCEPT !.lastDrain = t] ELSE b
    IN  IF b1.value <= 0
        THEN [b1 EXCEPT !.value = 0, !.lastDrain = t]
        ELSE LET since == t - b1.lastDrain
                 drainTime == Truncate(since, b1.DrainInterval)
                 leaks == Abs(drainTime) \div Abs(b1.DrainInterval)
                 v == b1.value - b1.DrainBy * leaks
             IN  [b1 EXCEPT !.value = IF v < 0 THEN 0 ELSE v, !.lastDrain = t]

\* drain() that leaves lastDrain of a non-empty bucket where it was.
drainKeepsLastDrain(b, t) ==
    LET b1 == IF IsZero(b.lastDrain) THEN [b EXCEPT !.lastDrain = t] ELSE b
    IN  IF b1.value <= 0
        THEN [b1 EXCEPT !.value = 0, !.lastDrain = t]
        ELSE LET since == t - b1.lastDrain
                 drainTime == Truncate(since, b1.DrainInterval)
                 leaks == Abs(drainTime) \div Abs(b1.DrainInterval)
                 v == b1.value - b1.DrainBy * leaks
             IN  [b1 EXCEPT !.value = IF v < 0 THEN 0 ELSE v]

\* drain() that adds the part of an interval that elapsed to the present
\* instant instead of subtracting it.
drainAddsRemainder(b, t) ==
    LET b1 == IF IsZero(b.lastDrain) THEN [b EXCEPT !.lastDrain = t] ELSE b
    IN  IF b1.value <= 0
        THEN [b1 EXCEPT !.value = 0, !.lastDrain = t]
        ELSE LET since == t - b1.lastDrain
                 drainTime == Truncate(since, b1.DrainInterval)
                 leaks == Abs(drainTime) \div Abs(b1.DrainInterval)
                 v == b1.value - b1.DrainBy * leaks
             IN  [b1 EXCEPT !.value = IF v < 0 THEN 0 ELSE v,
                            !.lastDrain = t + (since - drainTime)]

\* drain() that leaves lastDrain of an empty bucket where it was.
drainEmptyKeepsLastDrain(b, t) ==
    LET b1 == IF IsZero(b.lastDrain) THEN [b EXCEPT !.lastDrain = t] ELSE b
    IN  IF b1.value <= 0
        THEN [b1 EXCEPT !.value = 0]
        ELSE LET since == t - b1.lastDrain
                 drainTime == Truncate(since, b1.DrainInterval)
                 leaks == Abs(drainTime) \div Abs(b1.DrainInterval)
                 v == b1.value - b1.DrainBy * leaks
             IN  [b1 EXCEPT !.value = IF v < 0 THEN 0 ELSE v,
                            !.lastDrain = t + ((since - drainTime) * (0 - 1))]

\* drain() that counts from a lastDrain never set as from any other.
drainCountsFromZeroTime(b, t) ==
    IF b.value <= 0
    THEN [b EXCEPT !.value = 0, !.lastDrain = t]
    ELSE LET since == t - b.lastDrain
             drainTime == Truncate(since, b.DrainInterval)
             leaks == Abs(drainTime) \div Abs(b.DrainInterval)
             v == b.value - b.DrainBy * leaks
         IN  [b EXCEPT !.value = IF v < 0 THEN 0 ELSE v,
                       !.lastDrain = t + ((since - drainTime) * (0 - 1))]

\* The body of drain(), run with the lock held at instant t.
drain(b, t) ==
    LET b1 == IF IsZero(b.lastDrain) THEN [b EXCEPT !.lastDrain = t] ELSE b
    IN  IF b1.value <= 0
        THEN [b1 EXCEPT !.value = 0, !.lastDrain = t]
        ELSE LET since == t - b1.lastDrain
                 drainTime == Truncate(since, b1.DrainInterval)
                 leaks == Abs(drainTime) \div Abs(b1.DrainInterval)
                 v == b1.value - b1.DrainBy * leaks
             IN  [b1 EXCEPT !.value = IF v < 0 THEN 0 ELSE v,
                            !.lastDrain = t + ((since - drainTime) * (0 - 1))]

\* math.MaxInt64 and math.MinInt64, of an int64 that is eight bits wide.
MaxInt64 == 127
MinInt64 == (0 - MaxInt64) - 1

\* The int64 a sum or difference of two int64 is: it wraps around.
Int64(x) == ((x - MinInt64) % (2 * (MaxInt64 + 1))) + MinInt64

\* Add's locked section with the check made on the value before the addition.
AddSectionChecksOldValue(b, amount) ==
    IF b.value > b.Capacity
    THEN [err |-> ErrBucketFull, bucket |-> b]
    ELSE [err |-> Nil, bucket |-> [b EXCEPT !.value = Int64(b.value + amount)]]

\* Add's locked section with a check that lets one unit too many in.
AddSectionOffByOne(b, amount) ==
    LET newValue == Int64(b.value + amount)
    IN  IF newValue > b.Capacity + 1
        THEN [err |-> ErrBucketFull, bucket |-> b]
        ELSE [err |-> Nil, bucket |-> [b EXCEPT !.value = newValue]]

\* Add's locked section with a check that refuses the exact fill.
AddSectionRefusesExactFill(b, amount) ==
    LET newValue == Int64(b.value + amount)
    IN  IF newValue >= b.Capacity
        THEN [err |-> ErrBucketFull, bucket |-> b]
        ELSE [err |-> Nil, bucket |-> [b EXCEPT !.value = newValue]]

\* Add's locked section that cuts a value above Capacity down to Capacity
\* when it refuses the amount.
AddSectionTruncates(b, amount) ==
    LET newValue == Int64(b.value + amount)
    IN  IF newValue > b.Capacity
        THEN [err |-> ErrBucketFull,
              bucket |-> [b EXCEPT !.value = IF b.value > b.Capacity
                                             THEN b.Capacity ELSE b.value]]
        ELSE [err |-> Nil, bucket |-> [b EXCEPT !.value = newValue]]

\* The locked section of Add, after its drain: the error and the bucket.
AddSection(b, amount) ==
    LET newValue == Int64(b.value + amount)
    IN  IF newValue > b.Capacity
        THEN [err |-> ErrBucketFull, bucket |-> b]
        ELSE [err |-> Nil, bucket |-> [b EXCEPT !.value = newValue]]

\* Set's range checks without the check against Capacity.
SetCheckNoUpperBound(b, v) == IF v < 0 THEN ErrNegative ELSE Nil

\* The range checks of Set, made before it takes the lock.
SetCheck(b, v) ==
    IF v < 0 THEN ErrNegative
    ELSE IF v > b.Capacity THEN ErrExceeds
    ELSE Nil

\* Set's locked section followed by a drain of the value it stored.
SetSectionThenDrains(b, v, resetDrain, t) ==
    drain([b EXCEPT !.value = v,
                    !.lastDrain = IF resetDrain THEN t ELSE b.lastDrain], t)

\* Set's locked section without the reset of lastDrain.
SetSectionKeepsLastDrain(b, v, resetDrain, t) == [b EXCEPT !.value = v]

\* Set's locked section with the reset of lastDrain whatever resetDrain is.
SetSectionAlwaysResets(b, v, resetDrain, t) == [b EXCEPT !.value = v, !.lastDrain = t]

\* The locked section of Set at instant t.
SetSection(b, v, resetDrain, t) ==
    [b EXCEPT !.value = v,
              !.lastDrain = IF resetDrain THEN t ELSE b.lastDrain]

\* Time.UnixMilli: whole milliseconds since the epoch, rounded down.
UnixMilli(t) == t \div TicksPerMilli

\* time.UnixMilli: the instant that many milliseconds after the epoch.
FromUnixMilli(ms) == ms * TicksPerMilli

\* The fields Encode writes, in order: version, DrainBy, DrainInterval,
\* Capacity, value, lastDrain in milliseconds.
EncodeFields(b) ==
    <<1, b.DrainBy, b.DrainInterval, b.Capacity, b.value, UnixMilli(b.lastDrain)>>

\* The width in bytes of each field Encode writes: an int32, then int64s.
EncodeWidths == <<4, 8, 8, 8, 8, 8>>

\* The fault of a write: the writer's own failure.
WriteError == "write error"

\* An io.Writer: which Write call on it fails (0: none).
Writer(failOn) == [failOn |-> failOn]

\* What Encode returns and what has reached the writer w: the fields go to a
\* buffer of Encode's own, whose writes do not fail, and the buffer goes to w
\* in one Write, whose error is returned as it is.
EncodeTo(b, w) ==
    IF w.failOn = 1
    THEN [err |-> WriteError, bytes |-> <<>>]
    ELSE [err |-> Nil, bytes |-> EncodeFields(b)]

\* The greatest format version a corrupted stream carries.
MaxVersion == 2

\* The latest Write call a faulty writer fails.
MaxWriteOp == 2

Versions == 0..MaxVersion

\* The faults of a read: the reader's own failure, a stream that ends before
\* the field, and a stream that ends inside the field.
ReadError == "read error"
EOF == "EOF"
ErrUnexpectedEOF == "unexpected EOF"

\* An io.Reader: the whole fields it holds, whether a part of one more field
\* follows them, and which Read call fails (0: none).
Reader(fields, short, failOn) == [fields |-> fields, short |-> short, failOn |-> failOn]

\* binary.Read of the k-th field, the k-th Read call on r.
ReadField(r, k) ==
    IF r.failOn = k THEN [err |-> ReadError, val |-> 0]
    ELSE IF k <= Len(r.fields) THEN [err |-> Nil, val |-> r.fields[k]]
    ELSE IF k = Len(r.fields) + 1 /\ r.short THEN [err |-> ErrUnexpectedEOF, val |-> 0]
    ELSE [err |-> EOF, val |-> 0]

\* The version check that accepts every version up to 1.
VersionCheckAtMostOne(format) ==
    IF format > 1
    THEN "leaky: unsupported format version " \o ToString(format)
    ELSE Nil

\* The version check of DecodeBucket.
VersionCheck(format) ==
    IF format # 1
    THEN "leaky: unsupported format version " \o ToString(format)
    ELSE Nil

\* What DecodeBucket returns: the error, the bucket (<<>> is nil, <<b>> is
\* the bucket b) and, as history, the number of Read calls it made.
Decoded(err, b, reads) == [err |-> err, bucket |-> b, reads |-> reads]

\* DecodeBucket(r): the fields are read in write order; a failed read returns
\* the read's own error.
DecodeBucket(r) ==
    LET f(k) == ReadField(r, k)
    IN  IF f(1).err # Nil THEN Decoded(f(1).err, <<>>, 1)
        ELSE IF VersionCheck(f(1).val) # Nil
             THEN Decoded(VersionCheck(f(1).val), <<>>, 1)
        ELSE IF f(2).err # Nil THEN Decoded(f(2).err, <<>>, 2)
        ELSE IF f(3).err # Nil THEN Decoded(f(3).err, <<>>, 3)
        ELSE IF f(4).err # Nil THEN Decoded(f(4).err, <<>>, 4)
        ELSE IF f(5).err # Nil THEN Decoded(f(5).err, <<>>, 5)
        ELSE IF f(6).err # Nil THEN Decoded(f(6).err, <<>>, 6)
        ELSE Decoded(Nil,
                     <<Bucket(f(2).val, f(3).val, f(4).val, f(5).val,
                              FromUnixMilli(f(6).val))>>,
                     6)

\* The readers DecodeBucket is given for an encoded stream: the stream cut
\* at a field boundary or inside a field, the whole stream behind a reader
\* whose k-th Read fails, and the stream with another version marker, whole
\* or cut after the marker.
Readers(bytes) ==
    {Reader(SubSeq(bytes, 1, k), FALSE, 0) : k \in 0..Len(bytes)}
    \cup {Reader(SubSeq(bytes, 1, k), TRUE, 0) : k \in 0..(Len(bytes) - 1)}
    \cup {Reader(bytes, FALSE, k) : k \in 1..(Len(bytes) + 1)}
    \cup {Reader(<<v>> \o SubSeq(bytes, 2, k), FALSE, 0) :
             v \in Versions \ {1}, k \in {1, Len(bytes)}}

\* ------------------------------------------------------------------- state

VARIABLES
    bucket,   \* the shared *Bucket
    now,      \* the clock
    pc,       \* pc[p]: where caller p is in its call
    arg,      \* arg[p]: the arguments of p's call, and what the call found
    ret       \* ret[p]: what p's finished call returned

vars == <<bucket, now, pc, arg, ret>>

\* A call's arguments.  A call also remembers the bucket it found and the
\* instant it began, for as long as no other caller starts a call (Drain,
\* which is Add, remembers nothing): found and at are history, no step reads
\* them.
NoArg ==
    [amount |-> 0, value |-> 0, resetDrain |-> FALSE, found |-> NoBucket, at |-> 0,
     drainBy |-> 0, drainEvery |-> 0, capacity |-> 0]

Forget(a) == [a EXCEPT !.found = NoBucket, !.at = 0]

Found(p) ==
    IF \A q \in Callers \ {p} : pc[q] = "idle"
    THEN [NoArg EXCEPT !.found = bucket, !.at = now]
    ELSE NoArg

\* What a call returned: the error, the number, the bytes written and, for
\* DecodeBucket, the bucket (<<>> is nil); reader is the reader DecodeBucket
\* was given, reads the number of Read calls it made and writer the writer
\* Encode was given.
NoRet ==
    [op |-> "none", err |-> Nil, val |-> 0, bytes |-> <<>>, bucket |-> <<>>,
     reader |-> Reader(<<>>, FALSE, 0), reads |-> 0, writer |-> Writer(0)]

Returned(op, err, val, bytes) ==
    [NoRet EXCEPT !.op = op, !.err = err, !.val = val, !.bytes = bytes]

\* The bucket is made by NewBucket, or as a struct literal, with valid fields.
Init ==
    /\ now = 0
    /\ \E d \in DrainBys, i \in Intervals, c \in Capacities :
          \/ bucket = NewBucket(d, i, c, now).bucket
          \/ bucket = LiteralBucket(d, i, c)
    /\ pc = [p \in Callers |-> "idle"]
    /\ arg = [p \in Callers |-> NoArg]
    /\ ret = [p \in Callers |-> NoRet]

\* The bucket is made by NewBucket and shared by the callers.
InitFixed ==
    /\ now = 0
    /\ \E d \in {1, MaxDrainBy}, i \in {MaxInterval - 1}, c \in {MaxCapacity} :
          bucket = NewBucket(d, i, c, now).bucket
    /\ pc = [p \in Callers |-> "idle"]
    /\ arg = [p \in Callers |-> NoArg]
    /\ ret = [p \in Callers |-> NoRet]

\* ----------------------------------------------------------------- actions

\* The clock advances.
Tick ==
    /\ now < MaxTime
    /\ now' = now + 1
    /\ UNCHANGED <<bucket, pc, arg, ret>>

\* The owner writes an exported field, between operations.
Reconfigure ==
    /\ \A p \in Callers : pc[p] = "idle"
    /\ \/ \E d \in DrainBys : bucket' = [bucket EXCEPT !.DrainBy = d]
       \/ \E i \in Intervals : bucket' = [bucket EXCEPT !.DrainInterval = i]
       \/ \E c \in Capacities : bucket' = [bucket EXCEPT !.Capacity = c]
    /\ bucket' # bucket
    /\ UNCHANGED <<now, pc, arg, ret>>

\* Caller p's call returns r.  A caller takes its result (Return) before
\* another call returns: Return touches nothing the methods read, so every
\* interleaving of the methods' own steps remains.
Finish(p, r) ==
    /\ \A q \in Callers : pc[q] # "done"
    /\ pc' = [pc EXCEPT ![p] = "done"]
    /\ ret' = [ret EXCEPT ![p] = r]

\* Caller p's call goes on at label, with arguments a.
Goto(p, label, a) ==
    /\ pc' = [pc EXCEPT ![p] = label]
    /\ arg' = [q \in Callers |-> IF q = p THEN a ELSE Forget(arg[q])]
    /\ UNCHANGED ret

\* Peek() that drains before it reads b.value.
PeekDrains(p) ==
    /\ pc[p] = "idle"
    /\ bucket' = drain(bucket, now)
    /\ Finish(p, Returned("Peek", Nil, bucket'.value, <<>>))
    /\ arg' = [arg EXCEPT ![p] = Found(p)]
    /\ UNCHANGED now

\* Peek(): reads b.value, without the lock.
Peek(p) ==
    /\ pc[p] = "idle"
    /\ Finish(p, Returned("Peek", Nil, bucket.value, <<>>))
    /\ arg' = [arg EXCEPT ![p] = Found(p)]
    /\ UNCHANGED <<bucket, now>>

\* Value(): b.drain() ...
Value(p) ==
    /\ pc[p] = "idle"
    /\ bucket' = drain(bucket, now)
    /\ Goto(p, "Value", Found(p))
    /\ UNCHANGED now

\* ... then return b.value, read without the lock.
ValueReturn(p) ==
    /\ pc[p] = "Value"
    /\ Finish(p, Returned("Value", Nil, bucket.value, <<>>))
    /\ UNCHANGED <<bucket, now, arg>>

\* Remaining(): b.drain() ...
Remaining(p) ==
    /\ pc[p] = "idle"
    /\ bucket' = drain(bucket, now)
    /\ Goto(p, "Remaining", Found(p))
    /\ UNCHANGED now

\* The return of Remaining() with a result that is never below 0.
RemainingReturnClamped(p) ==
    /\ pc[p] = "Remaining"
    /\ Finish(p, Returned("Remaining", Nil,
                          IF bucket.Capacity - bucket.value < 0
                          THEN 0 ELSE bucket.Capacity - bucket.value, <<>>))
    /\ UNCHANGED <<bucket, now, arg>>

\* ... then return b.Capacity - b.value, read without the lock.
RemainingReturn(p) ==
    /\ pc[p] = "Remaining"
    /\ Finish(p, Returned("Remaining", Nil, bucket.Capacity - bucket.value, <<>>))
    /\ UNCHANGED <<bucket, now, arg>>

\* Add(amount): b.drain() ...
Add(p, amount) ==
    /\ pc[p] = "idle"
    /\ bucket' = drain(bucket, now)
    /\ Goto(p, "Add", [Found(p) EXCEPT !.amount = amount])
    /\ UNCHANGED now

\* ... then the locked section: the capacity check and the commit.
AddLocked(p) ==
    /\ pc[p] = "Add"
    /\ LET r == AddSection(bucket, arg[p].amount)
       IN  /\ bucket' = r.bucket
           /\ Finish(p, Returned("Add", r.err, 0, <<>>))
    /\ UNCHANGED <<now, arg>>

\* Drain(amount) is b.Add(-amount): b.drain() ...
Drain(p, amount) ==
    /\ pc[p] = "idle"
    /\ bucket' = drain(bucket, now)
    /\ Goto(p, "Drain", [NoArg EXCEPT !.amount = amount])
    /\ UNCHANGED now

\* ... then the locked section of Add, with the amount negated.
DrainLocked(p) ==
    /\ pc[p] = "Drain"
    /\ LET r == AddSection(bucket, 0 - arg[p].amount)
       IN  /\ bucket' = r.bucket
           /\ Finish(p, Returned("Drain", r.err, 0, <<>>))
    /\ UNCHANGED <<now, arg>>

\* Set(value, resetDrain): the range checks; a value out of range returns.
Set(p, v, resetDrain) ==
    /\ pc[p] = "idle"
    /\ LET a == [Found(p) EXCEPT !.value = v, !.resetDrain = resetDrain]
           e == SetCheck(bucket, v)
       IN  IF e # Nil
           THEN /\ Finish(p, Returned("Set", e, 0, <<>>))
                /\ arg' = [arg EXCEPT ![p] = a]
           ELSE Goto(p, "Set", a)
    /\ UNCHANGED <<bucket, now>>

\* ... then the locked section: the value and, when asked, lastDrain.
SetLocked(p) ==
    /\ pc[p] = "Set"
    /\ bucket' = SetSection(bucket, arg[p].value, arg[p].resetDrain, now)
    /\ Finish(p, Returned("Set", Nil, 0, <<>>))
    /\ UNCHANGED <<now, arg>>

\* Encode(w) that drains before it reads the fields.
EncodeDrains(p, w) ==
    /\ pc[p] = "idle"
    /\ bucket' = drain(bucket, now)
    /\ LET e == EncodeTo(bucket', w)
       IN  Finish(p, [Returned("Encode", e.err, 0, e.bytes) EXCEPT !.writer = w])
    /\ UNCHANGED <<now, arg>>

\* Encode(w): the fields are read with the lock held and written to w.
Encode(p, w) ==
    /\ pc[p] = "idle"
    /\ LET e == EncodeTo(bucket, w)
       IN  Finish(p, [Returned("Encode", e.err, 0, e.bytes) EXCEPT !.writer = w])
    /\ UNCHANGED <<bucket, now, arg>>

\* DecodeBucket(r), on a reader over the bytes the caller's Encode wrote.
Decode(p) ==
    /\ pc[p] = "done"
    /\ ret[p].op = "Encode"
    /\ ret[p].err = Nil
    /\ \E r \in Readers(ret[p].bytes) :
          LET d == DecodeBucket(r)
          IN  ret' = [ret EXCEPT ![p] =
                        [Returned("Decode", d.err, 0, ret[p].bytes)
                           EXCEPT !.bucket = d.bucket, !.reader = r,
                                  !.reads = d.reads]]
    /\ UNCHANGED <<bucket, now, pc, arg>>

\* NewBucket(drainBy, drainEvery, capacity): the bucket it returns becomes
\* the program's bucket; after an error the program keeps the one it had.
New(p, drainBy, drainEvery, capacity) ==
    /\ pc[p] = "idle"
    /\ LET r == NewBucket(drainBy, drainEvery, capacity, now)
       IN  /\ bucket' = IF r.err = Nil THEN r.bucket ELSE bucket
           /\ Finish(p, [Returned("NewBucket", r.err, 0, <<>>) EXCEPT
                           !.bucket = IF r.err = Nil THEN <<r.bucket>> ELSE <<>>])
    /\ arg' = [arg EXCEPT ![p] = [NoArg EXCEPT !.drainBy = drainBy,
                                               !.drainEvery = drainEvery,
                                               !.capacity = capacity,
                                               !.at = now]]
    /\ UNCHANGED now

\* The caller takes the result and is free to call again.
Return(p) ==
    /\ pc[p] = "done"
    /\ pc' = [pc EXCEPT ![p] = "idle"]
    /\ arg' = [arg EXCEPT ![p] = NoArg]
    /\ ret' = [ret EXCEPT ![p] = NoRet]
    /\ UNCHANGED <<bucket, now>>

\* One step of caller p.
Call(p) ==
    \/ Peek(p)
    \/ Value(p)
    \/ ValueReturn(p)
    \/ Remaining(p)
    \/ RemainingReturn(p)
    \/ \E amount \in Amounts : Add(p, amount)
    \/ AddLocked(p)
    \/ \E v \in SetValues, resetDrain \in BOOLEAN : Set(p, v, resetDrain)
    \/ SetLocked(p)
    \/ Encode(p, Writer(0))
    \/ Return(p)

\* One step of caller p in Drain, the method built on Add.
CallDrain(p) ==
    \/ \E amount \in Amounts : Drain(p, amount)
    \/ DrainLocked(p)

\* One caller; the owner may reconfigure the bucket between its calls.
Next ==
    \/ Tick
    \/ Reconfigure
    \/ Call("c1")
    \/ CallDrain("c1")
    \/ Decode("c1")
    \/ \E k \in 1..MaxWriteOp : Encode("c1", Writer(k))

Spec == Init /\ [][Next]_vars

\* Any caller, on a bucket whose configuration is never changed.
NextFixed ==
    \/ Tick
    \/ \E p \in Callers : Call(p)

SpecFixed == InitFixed /\ [][NextFixed]_vars

\* --------------------------------------------- the lock, step by step

\* The calls of the callers that share the bucket and contend for its lock.
LockAmounts == {MaxAmount}
LockSetValues == {0 - 1, MaxCapacity}
LockWriters == {Writer(0), Writer(1)}
LockReaders ==
    LET bytes == EncodeFields(NewBucket(1, MaxInterval - 1, MaxCapacity, 0).bucket)
    IN  {Reader(bytes, FALSE, 0), Reader(bytes, FALSE, 1), Reader(<<0>>, FALSE, 0)}

\* A call begins: the code before the first b.lock.Lock().  Peek has no lock
\* to take; Value, Remaining and Add enter drain(); Set makes its range
\* checks; DecodeBucket makes the bucket it is to fill.
Begin(p) ==
    /\ pc[p] = "idle"
    /\ \/ /\ Finish(p, Returned("Peek", Nil, bucket.value, <<>>))
          /\ UNCHANGED arg
       \/ \E op \in {"Value", "Remaining"} :
             /\ pc' = [pc EXCEPT ![p] = "drain.Lock"]
             /\ ret' = [ret EXCEPT ![p] = Returned(op, Nil, 0, <<>>)]
             /\ UNCHANGED arg
       \/ \E amount \in LockAmounts :
             /\ pc' = [pc EXCEPT ![p] = "drain.Lock"]
             /\ ret' = [ret EXCEPT ![p] = Returned("Add", Nil, 0, <<>>)]
             /\ arg' = [arg EXCEPT ![p] = [NoArg EXCEPT !.amount = amount]]
       \/ \E v \in LockSetValues, resetDrain \in BOOLEAN :
             /\ arg' = [arg EXCEPT ![p] = [NoArg EXCEPT !.value = v,
                                                        !.resetDrain = resetDrain]]
             /\ IF SetCheck(bucket, v) # Nil
                THEN Finish(p, Returned("Set", SetCheck(bucket, v), 0, <<>>))
                ELSE /\ pc' = [pc EXCEPT ![p] = "Lock"]
                     /\ ret' = [ret EXCEPT ![p] = Returned("Set", Nil, 0, <<>>)]
       \/ \E w \in LockWriters :
             /\ pc' = [pc EXCEPT ![p] = "Lock"]
             /\ ret' = [ret EXCEPT ![p] =
                           [Returned("Encode", Nil, 0, <<>>) EXCEPT !.writer = w]]
             /\ UNCHANGED arg
       \/ \E r \in LockReaders :
             /\ pc' = [pc EXCEPT ![p] = "new.Lock"]
             /\ ret' = [ret EXCEPT ![p] =
                           [Returned("Decode", Nil, 0, r.fields)
                              EXCEPT !.reader = r, !.bucket = <<NoBucket>>]]
             /\ UNCHANGED arg
    /\ UNCHANGED <<bucket, now>>

\* b.lock.Lock(), in drain() and in Add, Set and Encode: the caller goes on
\* once nobody holds the lock, itself included.
Lock(p) ==
    /\ pc[p] \in {"drain.Lock", "Lock"}
    /\ bucket.lock = Unlocked
    /\ bucket' = [bucket EXCEPT !.lock = p]
    /\ pc' = [pc EXCEPT ![p] = IF pc[p] = "drain.Lock" THEN "drain" ELSE "locked"]
    /\ UNCHANGED <<now, arg, ret>>

\* The body of drain(), in its lock; the deferred Unlock follows every return.
DrainBody(p) ==
    /\ pc[p] = "drain"
    /\ bucket' = drain(bucket, now)
    /\ pc' = [pc EXCEPT ![p] = "drain.Unlock"]
    /\ UNCHANGED <<now, arg, ret>>

\* The locked section of Add that returns ErrBucketFull past the Unlock.
SectionKeepsLockWhenFull(p) ==
    /\ pc[p] = "locked"
    /\ \/ /\ ret[p].op = "Add"
          /\ LET r == AddSection(bucket, arg[p].amount)
             IN  /\ bucket' = r.bucket
                 /\ IF r.err = Nil
                    THEN /\ pc' = [pc EXCEPT ![p] = "Unlock"]
                         /\ ret' = [ret EXCEPT ![p].err = r.err]
                    ELSE Finish(p, [ret[p] EXCEPT !.err = r.err])
       \/ /\ ret[p].op = "Set"
          /\ bucket' = SetSection(bucket, arg[p].value, arg[p].resetDrain, now)
          /\ pc' = [pc EXCEPT ![p] = "Unlock"]
          /\ UNCHANGED ret
       \/ /\ ret[p].op = "Encode"
          /\ LET e == EncodeTo(bucket, ret[p].writer)
             IN  ret' = [ret EXCEPT ![p].err = e.err, ![p].bytes = e.bytes]
          /\ pc' = [pc EXCEPT ![p] = "Unlock"]
          /\ UNCHANGED bucket
    /\ UNCHANGED <<now, arg>>

\* The locked section of Add, Set or Encode; the deferred Unlock follows
\* every return, the one with an error too.
Section(p) ==
    /\ pc[p] = "locked"
    /\ pc' = [pc EXCEPT ![p] = "Unlock"]
    /\ \/ /\ ret[p].op = "Add"
          /\ LET r == AddSection(bucket, arg[p].amount)
             IN  /\ bucket' = r.bucket
                 /\ ret' = [ret EXCEPT ![p].err = r.err]
       \/ /\ ret[p].op = "Set"
          /\ bucket' = SetSection(bucket, arg[p].value, arg[p].resetDrain, now)
          /\ UNCHANGED ret
       \/ /\ ret[p].op = "Encode"
          /\ LET e == EncodeTo(bucket, ret[p].writer)
             IN  ret' = [ret EXCEPT ![p].err = e.err, ![p].bytes = e.bytes]
          /\ UNCHANGED bucket
    /\ UNCHANGED <<now, arg>>

\* The deferred b.lock.Unlock().  After drain()'s, Value and Remaining go on
\* to their read and Add to its own Lock; after the others the call returns.
Unlock(p) ==
    /\ pc[p] \in {"drain.Unlock", "Unlock"}
    /\ bucket' = [bucket EXCEPT !.lock = Unlocked]
    /\ IF pc[p] = "drain.Unlock"
       THEN /\ pc' = [pc EXCEPT ![p] = IF ret[p].op = "Add" THEN "Lock" ELSE "read"]
            /\ UNCHANGED ret
       ELSE Finish(p, ret[p])
    /\ UNCHANGED <<now, arg>>

\* return b.value, return b.Capacity - b.value: the read after drain().
Read(p) ==
    /\ pc[p] = "read"
    /\ Finish(p, [ret[p] EXCEPT !.val = IF ret[p].op = "Value"
                                        THEN bucket.value
                                        ELSE bucket.Capacity - bucket.value])
    /\ UNCHANGED <<bucket, now, arg>>

\* DecodeBucket: bucket.lock.Lock() on the bucket it has just made.
LockNew(p) ==
    /\ pc[p] = "new.Lock"
    /\ ret[p].bucket[1].lock = Unlocked
    /\ ret' = [ret EXCEPT ![p].bucket = <<[ret[p].bucket[1] EXCEPT !.lock = p]>>]
    /\ pc' = [pc EXCEPT ![p] = "new.locked"]
    /\ UNCHANGED <<bucket, now, arg>>

\* DecodeBucket: the reads, in the new bucket's lock; the deferred Unlock
\* follows every return.
DecodeBody(p) ==
    /\ pc[p] = "new.locked"
    /\ LET d == DecodeBucket(ret[p].reader)
       IN  ret' = [ret EXCEPT ![p].err = d.err, ![p].reads = d.reads,
                              ![p].bucket = IF d.err = Nil
                                            THEN <<[d.bucket[1] EXCEPT !.lock = p]>>
                                            ELSE ret[p].bucket]
    /\ pc' = [pc EXCEPT ![p] = "new.Unlock"]
    /\ UNCHANGED <<bucket, now, arg>>

\* DecodeBucket: the deferred bucket.lock.Unlock(), then the return of the
\* bucket, or of nil after an error.
UnlockNew(p) ==
    /\ pc[p] = "new.Unlock"
    /\ Finish(p, [ret[p] EXCEPT !.bucket = IF ret[p].err = Nil
                                           THEN <<[ret[p].bucket[1] EXCEPT !.lock = Unlocked]>>
                                           ELSE <<>>])
    /\ UNCHANGED <<bucket, now, arg>>

\* A step of caller p inside a call.
Step(p) ==
    \/ Lock(p)
    \/ DrainBody(p)
    \/ Section(p)
    \/ Unlock(p)
    \/ Read(p)
    \/ LockNew(p)
    \/ DecodeBody(p)
    \/ UnlockNew(p)

\* Concurrent callers of one bucket made by NewBucket at instant 0; their
\* calls fall within one reading of the clock, at once or an interval later.
InitLock ==
    /\ now \in {0, MaxInterval}
    /\ bucket = NewBucket(1, MaxInterval - 1, MaxCapacity, 0).bucket
    /\ pc = [p \in Callers |-> "idle"]
    /\ arg = [p \in Callers |-> NoArg]
    /\ ret = [p \in Callers |-> NoRet]

NextLock ==
    \E p \in Callers : Begin(p) \/ Step(p) \/ Return(p)

\* sync.Mutex hands the lock to a goroutine that waits for it, and a
\* goroutine that can run does run.
SpecLock ==
    /\ InitLock
    /\ [][NextLock]_vars
    /\ \A p \in Callers : SF_vars(Step(p)) /\ WF_vars(Return(p))

\* A program that has no bucket yet and makes one, again and again, from any
\* arguments.
InitNew ==
    /\ now = 0
    /\ bucket = NoBucket
    /\ pc = [p \in Callers |-> "idle"]
    /\ arg = [p \in Callers |-> NoArg]
    /\ ret = [p \in Callers |-> NoRet]

NextNew ==
    \/ Tick
    \/ \E d \in NewDrainBys, i \in NewIntervals, c \in NewCapacities : New("c1", d, i, c)
    \/ Return("c1")

SpecNew == InitNew /\ [][NextNew]_vars

\* ------------------------------------------- a bucket taken from a stream

\* The well-formed version-1 streams DecodeBucket is given: six whole fields
\* of any content, those NewBucket and Set refuse too.
StreamDrainBys == {0, 1}
StreamIntervals == (0 - 1)..(MaxInterval - 1)
StreamCapacities == {0, MaxCapacity}
StreamValues == {0 - 1, 0, 1, MaxCapacity + 1}
StreamLastDrains == {UnixMilli(ZeroTime), 0, 1}

Streams ==
    {<<1, d, i, c, v, ms>> : d \in StreamDrainBys, i \in StreamIntervals,
                             c \in StreamCapacities, v \in StreamValues,
                             ms \in StreamLastDrains}

\* drain() divides by b.DrainInterval.Abs() once it has found a value above
\* 0: with a DrainInterval of 0 the division panics (integer divide by zero).
DivideByZero(b) == b.value > 0 /\ Abs(b.DrainInterval) = 0

\* The program decodes a stream and keeps the bucket DecodeBucket returns.
Load(p) ==
    /\ pc[p] = "idle"
    /\ bucket = NoBucket
    /\ \E s \in Streams :
          LET r == Reader(s, FALSE, 0)
              d == DecodeBucket(r)
          IN  /\ d.err = Nil
              /\ bucket' = d.bucket[1]
              /\ Finish(p, [Returned("Decode", d.err, 0, s)
                              EXCEPT !.bucket = d.bucket, !.reader = r,
                                     !.reads = d.reads])
    /\ UNCHANGED <<now, arg>>

\* Value(), Remaining() or Add(amount) on a bucket whose drain() divides by
\* zero: the call panics inside drain() and never returns.
Panic(p) ==
    /\ pc[p] = "idle"
    /\ DivideByZero(bucket)
    /\ \E op \in {"Value", "Remaining", "Add"} :
          /\ pc' = [pc EXCEPT ![p] = "panic"]
          /\ ret' = [ret EXCEPT ![p] = Returned(op, Nil, 0, <<>>)]
    /\ arg' = [arg EXCEPT ![p] = Found(p)]
    /\ UNCHANGED <<bucket, now>>

\* The calls that enter drain(), where it runs to its end.
DrainRuns(p) ==
    /\ ~DivideByZero(bucket)
    /\ \/ Value(p)
       \/ Remaining(p)
       \/ \E amount \in Amounts : Add(p, amount)

\* A program that has no bucket yet.
InitDecoded ==
    /\ now = 0
    /\ bucket = NoBucket
    /\ pc = [p \in Callers |-> "idle"]
    /\ arg = [p \in Callers |-> NoArg]
    /\ ret = [p \in Callers |-> NoRet]

\* One caller decodes a bucket and uses it.
NextDecoded ==
    \/ Tick
    \/ Load("c1")
    \/ bucket # NoBucket /\ DrainRuns("c1")
    \/ Panic("c1")
    \/ ValueReturn("c1")
    \/ RemainingReturn("c1")
    \/ AddLocked("c1")
    \/ bucket # NoBucket /\ \E v \in SetValues, resetDrain \in BOOLEAN : Set("c1", v, resetDrain)
    \/ SetLocked("c1")
    \/ Return("c1")

SpecDecoded == InitDecoded /\ [][NextDecoded]_vars

\* ------------------------------------------------ a bucket left to drain

\* The last instant at which something is put into the bucket: from the next
\* instant on no Add of an amount above 0 and no Set is performed.
LastLoad == MaxInterval - 1

\* The instant by which a bucket filled at LastLoad has drained: the whole
\* intervals that take Capacity away, DrainBy at a time.
DrainedBy(b) ==
    LastLoad + ((b.Capacity + b.DrainBy - 1) \div b.DrainBy) * b.DrainInterval

\* Caller p is inside a call that puts something into the bucket.
Loading(p) == (pc[p] = "Add" /\ arg[p].amount > 0) \/ pc[p] = "Set"

\* The clock advances; it leaves the instant LastLoad once the calls that
\* put something into the bucket have returned.
DrainTick ==
    /\ now = LastLoad => \A p \in Callers : ~Loading(p)
    /\ Tick

\* A step of caller p inside a call, and the return to the caller.
Complete(p) ==
    \/ ValueReturn(p)
    \/ AddLocked(p)
    \/ SetLocked(p)
    \/ Return(p)

\* The bucket is made by NewBucket, with a configuration that drains a full
\* bucket within the time the clock of the model runs.
InitDrain ==
    /\ now = 0
    /\ \E d \in DrainBys, i \in Intervals, c \in Capacities :
          /\ bucket = NewBucket(d, i, c, now).bucket
          /\ DrainedBy(bucket) <= MaxTime
    /\ pc = [p \in Callers |-> "idle"]
    /\ arg = [p \in Callers |-> NoArg]
    /\ ret = [p \in Callers |-> NoRet]

\* One caller: it adds and sets up to the instant LastLoad, and calls Value()
\* and Add of amounts up to 0 at any time.
NextDrain ==
    \/ DrainTick
    \/ Value("c1")
    \/ \E amount \in Amounts :
          /\ amount > 0 => now <= LastLoad
          /\ Add("c1", amount)
    \/ \E v \in SetValues, resetDrain \in BOOLEAN :
          /\ now <= LastLoad
          /\ Set("c1", v, resetDrain)
    \/ Complete("c1")

\* The clock keeps advancing, Value() keeps being called, and a call that
\* has begun goes on to its return.
SpecDrain ==
    /\ InitDrain
    /\ [][NextDrain]_vars
    /\ SF_vars(DrainTick)
    /\ SF_vars(Value("c1"))
    /\ WF_vars(Complete("c1"))

\* ------------------------------------------- amounts near the int64 limits

\* The amounts Add is called with: small ones and the greatest of an int64.
WideAmounts == {1, MaxAmount, MaxInt64 - 1, MaxInt64}

\* One caller adds amounts of the whole int64 range to a bucket made by
\* NewBucket, and reads the value.
NextWide ==
    \/ Tick
    \/ \E amount \in WideAmounts : Add("c1", amount)
    \/ AddLocked("c1")
    \/ Peek("c1")
    \/ Return("c1")

SpecWide == InitFixed /\ [][NextWide]_vars

\* -------------------------------------------------------------- properties

Max(a, b) == IF a > b THEN a ELSE b

\* The drain instant a bucket counts from at instant t: lastDrain, or t when
\* lastDrain was never set.
LastDrainAt(b, t) == IF IsZero(b.lastDrain) THEN t ELSE b.lastDrain

\* The whole intervals between the drain instant b counts from and t.
WholeIntervals(b, t) == (t - LastDrainAt(b, t)) \div b.DrainInterval

\* The value a drain at instant t is to leave in a bucket b with value > 0.
Drained(b, t) == Max(0, b.value - b.DrainBy * WholeIntervals(b, t))

\* Caller p enters Value, Remaining or Add: the step that runs the drain.
Drains(p) == pc[p] = "idle" /\ pc'[p] \in {"Value", "Remaining", "Add"}

\* Caller p's call of op has returned and p has not yet taken the result.
Done(p, op) == pc[p] = "done" /\ ret[p].op = op

\* C1: on a bucket made by NewBucket whose configuration is never changed,
\* value <= Capacity in every reachable state, whatever the interleaving of
\* Add, Set, Value, Remaining, Peek and Encode by concurrent callers.
C1_ValueWithinCapacity == bucket.value <= bucket.Capacity

\* A caller's Add is refused on the full bucket while the other caller is
\* between the drain and the locked section of its own Add.
C1_FullWhileAdding ==
    \E p \in Callers, q \in Callers :
        /\ p # q
        /\ Done(p, "Add") /\ ret[p].err = ErrBucketFull
        /\ pc[q] = "Add" /\ arg[q].amount > 0
        /\ bucket.value = bucket.Capacity

\* C2: Add(amount > 0) returns ErrBucketFull whenever the value after the
\* drain plus amount exceeds Capacity, and the value stays the drained value.
C2_AddOverCapacityIsRefused ==
    [][\A p \in Callers :
          pc[p] = "Add" /\ pc'[p] = "done" /\ arg[p].amount > 0
          =>
          /\ bucket.value + arg[p].amount > bucket.Capacity
             => /\ ret'[p].op = "Add"
                /\ ret'[p].err = ErrBucketFull
                /\ bucket'.value = bucket.value
          /\ /\ arg[p].found.value > 0
             /\ Drained(arg[p].found, arg[p].at) + arg[p].amount > arg[p].found.Capacity
             => /\ ret'[p].err = ErrBucketFull
                /\ bucket'.value = Drained(arg[p].found, arg[p].at)]_vars

\* An Add is refused although the drain of the same call lowered the value.
C2_RefusedAfterDrain ==
    /\ Done("c1", "Add") /\ ret["c1"].err = ErrBucketFull
    /\ arg["c1"].amount > 0
    /\ arg["c1"].found.value > bucket.value
    /\ bucket.value > 0
    /\ bucket.value + arg["c1"].amount > bucket.Capacity

\* C3: with value v > 0 and e = now - lastDrain >= 0, the drain sets value to
\* max(0, v - DrainBy * floor(e / DrainInterval)), and Value() returns that.
C3_DrainLeaksWholeIntervals ==
    [][\A p \in Callers :
          /\ Drains(p) /\ bucket.value > 0 /\ now - LastDrainAt(bucket, now) >= 0
             => bucket'.value = Drained(bucket, now)
          /\ pc[p] = "Value" /\ pc'[p] = "done"
             => /\ ret'[p].val = bucket.value
                /\ arg[p].found.value > 0
                   => ret'[p].val = Drained(arg[p].found, arg[p].at)]_vars

\* Value() has drained two whole intervals or more and left some of the value.
C3_ValueAfterTwoIntervals ==
    /\ Done("c1", "Value")
    /\ ~IsZero(arg["c1"].found.lastDrain)
    /\ arg["c1"].at - arg["c1"].found.lastDrain >= 2 * arg["c1"].found.DrainInterval
    /\ ret["c1"].val > 0
    /\ ret["c1"].val < arg["c1"].found.value

\* C4: the drain of a bucket with value > 0 sets lastDrain to the old
\* lastDrain plus the whole intervals elapsed, which is now - (e mod
\* DrainInterval): the part of an interval that elapsed is kept.  A bucket
\* draining 5 every 60s, holding 15, holds 15 after 30s, 5 after 90s more and
\* 0 after 90s more.
C4_LastDrainKeepsRemainder ==
    [][\A p \in Callers :
          Drains(p) /\ bucket.value > 0
          => LET last == LastDrainAt(bucket, now)
                 e == now - last
             IN  /\ bucket'.lastDrain = last + (e \div bucket.DrainInterval) * bucket.DrainInterval
                 /\ bucket'.lastDrain = now - (e % bucket.DrainInterval)]_vars

\* The last observation of the example, with 1 for 5 units and 2 ticks for
\* 60s: the bucket held 1 with lastDrain 4; Value() at 7 returns 0 and
\* leaves lastDrain at 6.
C4_ExampleThirdObservation ==
    /\ Done("c1", "Value")
    /\ arg["c1"].found.DrainBy = 1 /\ arg["c1"].found.DrainInterval = 2
    /\ arg["c1"].found.value = 1 /\ arg["c1"].found.lastDrain = 4
    /\ arg["c1"].at = 7
    /\ ret["c1"].val = 0
    /\ bucket.lastDrain = 6

\* The bucket is one a drain at the present instant t1 = now can be asked
\* about: value >= 0, lastDrain set and not after t1.
DrainableNow == bucket.value >= 0 /\ ~IsZero(bucket.lastDrain) /\ bucket.lastDrain <= now

\* C5: from value >= 0 and a set lastDrain <= t1 <= t2, the drain at t1
\* followed by the drain at t2 leaves the value of the single drain at t2; it
\* leaves the same lastDrain too when the drain at t1 leaves value > 0 or the
\* bucket was empty before it.  When the drain at t1 empties the bucket, the
\* drain at t2 sets lastDrain to t2 and the single drain at t2 keeps the part
\* of an interval that elapsed.
C5_DrainAdditivity ==
    \A t2 \in now..MaxTime :
        DrainableNow
        => LET first == drain(bucket, now)
               twice == drain(first, t2)
               once == drain(bucket, t2)
           IN  /\ twice.value = once.value
               /\ first.value > 0 \/ bucket.value = 0
                  => twice.lastDrain = once.lastDrain
               /\ bucket.value > 0 /\ first.value = 0
                  => /\ twice.lastDrain = t2
                     /\ once.lastDrain = t2 - ((t2 - bucket.lastDrain) % bucket.DrainInterval)

\* Value() drained part of the value and kept a part of an interval; the
\* clock has moved on and a drain at the present instant leaks again.
C5_SecondDrainDue ==
    /\ Done("c1", "Value")
    /\ arg["c1"].found.value > bucket.value
    /\ bucket.value > 0
    /\ bucket.lastDrain < arg["c1"].at
    /\ arg["c1"].at < now
    /\ drain(bucket, now).value < bucket.value

\* C5 as stated: the drain at t1 followed by the drain at t2 leaves the value
\* and the lastDrain of the single drain at t2, from every such bucket.
C5_DrainAdditivityAlways ==
    \A t2 \in now..MaxTime :
        DrainableNow => drain(drain(bucket, now), t2) = drain(bucket, t2)

\* C6: value >= 0 in every reachable state, and Peek never returns a
\* negative number.
C6_ValueNeverNegative ==
    /\ bucket.value >= 0
    /\ \A p \in Callers : Done(p, "Peek") => ret[p].val >= 0

\* C7: Add(amount < 0) never returns an error, in any state, a value above
\* Capacity included.
C7_NegativeAddNeverFails ==
    \A p \in Callers : Done(p, "Add") /\ arg[p].amount < 0 => ret[p].err = Nil

\* C8: Add(amount < 0) with |amount| greater than the value after the drain
\* sets the value to 0.
C8_NegativeAddClampsAtZero ==
    [][\A p \in Callers :
          /\ pc[p] = "Add" /\ pc'[p] = "done"
          /\ arg[p].amount < 0 /\ 0 - arg[p].amount > bucket.value
          => bucket'.value = 0]_vars

\* C9: Add(amount > 0) succeeds exactly when the value after the drain plus
\* amount is at most Capacity, and then the value is that sum: adding
\* Capacity - value fills the bucket, and the drain comes before the check.
C9_AddSucceedsIffItFits ==
    [][\A p \in Callers :
          /\ pc[p] = "idle" /\ pc'[p] = "Add" /\ bucket.value > 0
             => bucket'.value = Drained(bucket, now)
          /\ pc[p] = "Add" /\ pc'[p] = "done" /\ arg[p].amount > 0
             => /\ ret'[p].err \in {Nil, ErrBucketFull}
                /\ ret'[p].err = Nil <=> bucket.value + arg[p].amount <= bucket.Capacity
                /\ ret'[p].err = Nil => bucket'.value = bucket.value + arg[p].amount
                /\ arg[p].found.value > 0
                   => (ret'[p].err = Nil <=>
                         Drained(arg[p].found, arg[p].at) + arg[p].amount
                            <= arg[p].found.Capacity)]_vars

\* A full bucket, at least one interval after its last drain, takes an Add
\* and is full again.
C9_RefillAfterDrain ==
    /\ Done("c1", "Add") /\ ret["c1"].err = Nil
    /\ arg["c1"].amount > 0
    /\ arg["c1"].found.value = arg["c1"].found.Capacity
    /\ ~IsZero(arg["c1"].found.lastDrain)
    /\ arg["c1"].at - arg["c1"].found.lastDrain >= arg["c1"].found.DrainInterval
    /\ bucket.value = bucket.Capacity

\* C10: Add(0), in every state, runs the drain, returns nil and changes
\* nothing else.
C10_AddZeroReturnsNil ==
    [][\A p \in Callers :
          pc[p] = "Add" /\ pc'[p] = "done" /\ arg[p].amount = 0
          => ret'[p].err = Nil /\ bucket' = bucket]_vars

\* C11: Drain(amount) returns what Add(-amount) returns and leaves the value
\* and lastDrain it leaves: a positive amount lowers the value, to 0 at the
\* least, and never fails; a negative amount raises it, and fails with
\* ErrBucketFull, the value unchanged, when the sum would exceed Capacity.
C11_DrainIsAddNegated ==
    [][\A p \in Callers :
          pc[p] = "Drain" /\ pc'[p] = "done"
          => /\ ret'[p].err = AddSection(bucket, 0 - arg[p].amount).err
             /\ bucket' = AddSection(bucket, 0 - arg[p].amount).bucket
             /\ arg[p].amount > 0
                => /\ ret'[p].err = Nil
                   /\ bucket'.value = Max(0, bucket.value - arg[p].amount)
             /\ arg[p].amount < 0 /\ bucket.value - arg[p].amount > bucket.Capacity
                => /\ ret'[p].err = ErrBucketFull
                   /\ bucket'.value = bucket.value]_vars

\* Caller p begins a call of Set: its range checks fail, or it goes on.
Sets(p) ==
    /\ pc[p] = "idle"
    /\ pc'[p] = "Set" \/ (pc'[p] = "done" /\ ret'[p].op = "Set")

\* C12: Set(v, reset) fails with the 'cannot be negative' error when v < 0
\* and with the 'cannot exceed capacity' error when v > Capacity, whatever
\* reset is, and a failed Set changes neither value nor lastDrain.
C12_SetOutOfRangeFails ==
    [][\A p \in Callers :
          Sets(p)
          => /\ arg'[p].value < 0
                => pc'[p] = "done" /\ ret'[p].err = ErrNegative /\ bucket' = bucket
             /\ arg'[p].value > bucket.Capacity
                => pc'[p] = "done" /\ ret'[p].err = ErrExceeds /\ bucket' = bucket
             /\ pc'[p] = "done" => ret'[p].err # Nil /\ bucket' = bucket]_vars

\* Set(Capacity + 1, false) has failed on a bucket with a drain pending, and
\* the bucket is as the call found it.
C12_SetAboveCapacityFailed ==
    /\ Done("c1", "Set") /\ ret["c1"].err = ErrExceeds
    /\ ~arg["c1"].resetDrain
    /\ arg["c1"].value = bucket.Capacity + 1
    /\ bucket.value > 0 /\ ~IsZero(bucket.lastDrain)
    /\ arg["c1"].at - bucket.lastDrain >= bucket.DrainInterval
    /\ bucket = arg["c1"].found

\* C13: a successful Set(v, reset), 0 <= v <= Capacity, runs no drain: right
\* after it the value is v, whatever the value was and however many
\* intervals had elapsed since lastDrain.
C13_SetStoresValue ==
    [][\A p \in Callers :
          /\ Sets(p) /\ pc'[p] = "Set"
             => /\ bucket' = bucket
                /\ 0 <= arg'[p].value /\ arg'[p].value <= bucket.Capacity
          /\ pc[p] = "Set" /\ pc'[p] = "done"
             => ret'[p].err = Nil /\ bucket'.value = arg[p].value]_vars

\* Set(v, false) has stored v > 0 in a bucket that held another value and
\* whose last drain was two intervals or more before the call.
C13_SetWithDrainPending ==
    /\ Done("c1", "Set") /\ ret["c1"].err = Nil
    /\ ~arg["c1"].resetDrain
    /\ arg["c1"].value > 0
    /\ arg["c1"].found.value > 0 /\ arg["c1"].found.value # arg["c1"].value
    /\ ~IsZero(arg["c1"].found.lastDrain)
    /\ arg["c1"].at - arg["c1"].found.lastDrain >= 2 * arg["c1"].found.DrainInterval
    /\ bucket.value = arg["c1"].value

\* C14: a successful Set(v, true) sets lastDrain to now and so discards the
\* backlog: Value() less than one DrainInterval later returns v, and the
\* first DrainBy leaves only once a whole DrainInterval has elapsed since.
C14_SetTrueResetsLastDrain ==
    [][\A p \in Callers :
          pc[p] = "Set" /\ pc'[p] = "done" /\ arg[p].resetDrain
          => /\ bucket'.lastDrain = now
             /\ \A t \in now..MaxTime :
                   /\ t - now < bucket.DrainInterval
                      => drain(bucket', t).value = arg[p].value
                   /\ t - now >= bucket.DrainInterval
                      => drain(bucket', t).value =
                            Max(0, arg[p].value
                                     - bucket.DrainBy * ((t - now) \div bucket.DrainInterval))]_vars

\* Set(v, true) has stored v > 0 in a bucket with a drain pending; time has
\* passed since, less than an interval, and a drain now leaves v.
C14_SetDiscardedBacklog ==
    /\ Done("c1", "Set") /\ ret["c1"].err = Nil
    /\ arg["c1"].resetDrain
    /\ arg["c1"].value > 0
    /\ arg["c1"].found.value > 0 /\ ~IsZero(arg["c1"].found.lastDrain)
    /\ arg["c1"].at - arg["c1"].found.lastDrain >= arg["c1"].found.DrainInterval
    /\ bucket.lastDrain >= arg["c1"].at
    /\ now > bucket.lastDrain /\ now - bucket.lastDrain < bucket.DrainInterval
    /\ drain(bucket, now).value = arg["c1"].value

\* C15: a successful Set(v, false) changes the value only: lastDrain, DrainBy,
\* DrainInterval and Capacity are what they were before the call.
C15_SetFalseChangesOnlyValue ==
    [][\A p \in Callers :
          /\ Sets(p) /\ pc'[p] = "Set" => bucket' = bucket
          /\ pc[p] = "Set" /\ pc'[p] = "done" /\ ~arg[p].resetDrain
             => bucket' = [bucket EXCEPT !.value = arg[p].value]]_vars

\* Set(v, false) has changed the value of a bucket whose lastDrain lies
\* before the call, and the rest of the bucket is as the call found it.
C15_SetKeptLastDrain ==
    /\ Done("c1", "Set") /\ ret["c1"].err = Nil
    /\ ~arg["c1"].resetDrain
    /\ arg["c1"].found.value # arg["c1"].value
    /\ ~IsZero(arg["c1"].found.lastDrain)
    /\ arg["c1"].found.lastDrain < arg["c1"].at
    /\ bucket = [arg["c1"].found EXCEPT !.value = arg["c1"].value]

\* C16: Peek() returns the stored value as it is and drains nothing: value,
\* lastDrain and the configuration are unchanged, also when whole intervals
\* have elapsed since lastDrain, and it never fails.
C16_PeekReadsOnly ==
    [][\A p \in Callers :
          pc[p] = "idle" /\ pc'[p] = "done" /\ ret'[p].op = "Peek"
          => /\ ret'[p].val = bucket.value
             /\ ret'[p].err = Nil
             /\ bucket' = bucket]_vars

\* Peek() has returned the value of a bucket from which a drain at that
\* instant would have taken some, and the bucket is as it was.
C16_PeekWithDrainPending ==
    /\ Done("c1", "Peek")
    /\ arg["c1"].found.value > 0 /\ ~IsZero(arg["c1"].found.lastDrain)
    /\ arg["c1"].at - arg["c1"].found.lastDrain >= arg["c1"].found.DrainInterval
    /\ drain(arg["c1"].found, arg["c1"].at).value < arg["c1"].found.value
    /\ ret["c1"].val = arg["c1"].found.value
    /\ bucket = arg["c1"].found

\* C17: Remaining() runs the drain and returns Capacity less the drained
\* value, so that Remaining() + Value() = Capacity at one instant; the
\* result is negative exactly when the drained value exceeds Capacity, and
\* Remaining() changes the value in no other way.
C17_RemainingIsCapacityLessValue ==
    [][\A p \in Callers :
          /\ pc[p] = "idle" /\ pc'[p] = "Remaining" /\ bucket.value > 0
             => bucket'.value = Drained(bucket, now)
          /\ pc[p] = "Remaining" /\ pc'[p] = "done"
             => /\ ret'[p].val = bucket.Capacity - bucket.value
                /\ ret'[p].err = Nil
                /\ bucket' = bucket
                /\ ret'[p].val < 0 <=> bucket.value > bucket.Capacity
                /\ arg[p].found.value > 0
                   => ret'[p].val = arg[p].found.Capacity - Drained(arg[p].found, arg[p].at)
                /\ arg[p].found.Capacity > 0
                   => LET first == drain(arg[p].found, arg[p].at)
                      IN  /\ ret'[p].val + first.value = arg[p].found.Capacity
                          /\ ret'[p].val + drain(first, arg[p].at).value
                                = arg[p].found.Capacity]_vars

\* Remaining() has drained part of a value above Capacity, which is still
\* above it, and returned a negative number.
C17_RemainingNegative ==
    /\ Done("c1", "Remaining")
    /\ ret["c1"].val < 0
    /\ arg["c1"].found.value > bucket.value
    /\ bucket.value > bucket.Capacity

\* The reader DecodeBucket was given held the whole stream and never failed.
WholeStream(p) ==
    /\ ret[p].reader.fields = ret[p].bytes
    /\ ~ret[p].reader.short
    /\ ret[p].reader.failOn = 0

\* C18: the round trip.  DecodeBucket applied to the bytes Encode wrote for
\* the bucket succeeds and returns a bucket with the same DrainBy,
\* DrainInterval, Capacity and value and a lastDrain equal to the bucket's at
\* the clock's full precision, also when lastDrain is not a whole number of
\* milliseconds.
C18_RoundTrip ==
    \A p \in Callers :
        Done(p, "Decode") /\ WholeStream(p) /\ ret[p].bytes = EncodeFields(bucket)
            => /\ ret[p].err = Nil
               /\ ret[p].bucket = <<bucket>>

\* C19: whenever the version marker read is not 1, DecodeBucket fails with
\* the unsupported-format-version error, which is none of the read faults,
\* returns no bucket and has read no field after the marker.
C19_UnsupportedVersion ==
    \A p \in Callers :
        Done(p, "Decode") /\ ReadField(ret[p].reader, 1).err = Nil
                          /\ ReadField(ret[p].reader, 1).val # 1
            => /\ ret[p].err = "leaky: unsupported format version "
                                  \o ToString(ret[p].reader.fields[1])
               /\ ret[p].err \notin {Nil, ReadError, EOF, ErrUnexpectedEOF}
               /\ ret[p].bucket = <<>>
               /\ ret[p].reads = 1

\* A stream whose marker is 0 and whose other fields are all there was
\* refused after one read.
C19_WholeStreamOfVersionZero ==
    \E p \in Callers :
        /\ Done(p, "Decode")
        /\ Len(ret[p].reader.fields) = 6
        /\ ret[p].reader.fields[1] = 0
        /\ ret[p].reader.failOn = 0
        /\ ret[p].err = "leaky: unsupported format version 0"
        /\ ret[p].reads = 1

\* The message a failed read of the k-th field is documented to carry (the
\* field names without their quotation marks).
FieldMessage(k) ==
    <<"leaky: unable to read format version",
      "leaky: unable to read DrainBy",
      "leaky: unable to read DrainInterval",
      "leaky: unable to read Capacity",
      "leaky: unable to read value",
      "leaky: unable to read size of lastDrain",
      "leaky: unable to read lastDrain">>[k]

\* errors.Join of a message and the fault it wraps.
Joined(msg, fault) == msg \o "\n" \o fault

\* The first of the seven documented reads that fails on reader r, 0 when
\* none does; the marker is 1.
FirstFailingRead(r) ==
    LET short == Len(r.fields) + 1
    IN  IF r.failOn = 0 THEN (IF short <= 6 THEN short ELSE 0)
        ELSE IF r.failOn < short THEN r.failOn
        ELSE IF short <= 6 THEN short ELSE r.failOn

\* C20: when the k-th read fails or is short, DecodeBucket returns no bucket
\* and an error that carries the k-th field's message and wraps the read's
\* fault.
C20_FailedReadNamesField ==
    \A p \in Callers :
        LET r == ret[p].reader
            k == FirstFailingRead(r)
        IN  Done(p, "Decode") /\ k \in 1..7 /\ (k = 1 \/ r.fields[1] = 1)
                => /\ ret[p].bucket = <<>>
                   /\ ret[p].err = Joined(FieldMessage(k), ReadField(r, k).err)

\* The message a failed write of the k-th field is documented to carry (the
\* field names without their quotation marks).
WriteMessage(k) ==
    <<"leaky: unable to write format version",
      "leaky: unable to write DrainBy",
      "leaky: unable to write DrainInterval",
      "leaky: unable to write Capacity",
      "leaky: unable to write value",
      "leaky: unable to write length of lastDrain",
      "leaky: unable to write lastDrain">>[k]

\* C21: Encode writes its fields to the writer one by one, so that a writer
\* whose k-th Write fails, k from 1 to 7, makes Encode return an error that
\* carries the k-th field's message and wraps the write's fault, never
\* success.
C21_FailedWriteNamesField ==
    \A p \in Callers :
        LET k == ret[p].writer.failOn
        IN  Done(p, "Encode") /\ k \in 1..7
                => /\ ret[p].err # Nil
                   /\ ret[p].err = Joined(WriteMessage(k), WriteError)

\* Caller p's call is an Encode that returns in this step.
Encodes(p) == pc[p] = "idle" /\ pc'[p] = "done" /\ ret'[p].op = "Encode"

\* C22: Encode does not drain and changes nothing of the bucket, whether it
\* succeeds or fails and whether or not a drain is due; the value it writes is
\* the stored value and the lastDrain it writes is the stored lastDrain, in
\* the stream's milliseconds, not those a drain at that instant would leave.
C22_EncodeReadsOnly ==
    [][\A p \in Callers :
          Encodes(p)
              => /\ bucket' = bucket
                 /\ ret'[p].err = Nil =>
                       /\ ret'[p].bytes[2] = bucket.DrainBy
                       /\ ret'[p].bytes[3] = bucket.DrainInterval
                       /\ ret'[p].bytes[4] = bucket.Capacity
                       /\ ret'[p].bytes[5] = bucket.value
                       /\ ret'[p].bytes[6] = UnixMilli(bucket.lastDrain)
                 /\ ret'[p].err # Nil => ret'[p].bytes = <<>>]_vars

\* An Encode has written the value and the lastDrain of a bucket that a drain
\* is due on, and the bucket still holds them: a drain at the present instant
\* changes both.
C22_EncodedWithDrainPending ==
    \E p \in Callers :
        /\ Done(p, "Encode")
        /\ ret[p].err = Nil
        /\ WholeIntervals(bucket, now) >= 1
        /\ drain(bucket, now).value < bucket.value
        /\ ret[p].bytes[5] = bucket.value
        /\ UnixMilli(drain(bucket, now).lastDrain) # ret[p].bytes[6]

\* C23: the stream Encode writes is the version (4 bytes, value 1), DrainBy,
\* DrainInterval, Capacity and value (8 bytes each), then lastDrain as a
\* length of 4 bytes followed by exactly that many bytes of timestamp: seven
\* fields, the sixth being the width of the seventh.
C23_StreamLayout ==
    \A p \in Callers :
        Done(p, "Encode") /\ ret[p].err = Nil
            => /\ Len(ret[p].bytes) = 7
               /\ Len(EncodeWidths) = 7
               /\ SubSeq(EncodeWidths, 1, 6) = <<4, 8, 8, 8, 8, 4>>
               /\ ret[p].bytes[1] = 1
               /\ SubSeq(ret[p].bytes, 2, 5)
                     = <<bucket.DrainBy, bucket.DrainInterval, bucket.Capacity,
                         bucket.value>>
               /\ ret[p].bytes[6] = EncodeWidths[7]

\* C24: NewBucket with all three arguments > 0 succeeds and returns a bucket
\* whose DrainBy, DrainInterval and Capacity are the arguments, whose value is
\* 0 and whose lastDrain is the instant of the call, not the zero time.
C24_NewBucketSucceeds ==
    \A p \in Callers :
        Done(p, "NewBucket") /\ arg[p].drainBy > 0 /\ arg[p].drainEvery > 0
                             /\ arg[p].capacity > 0
            => /\ ret[p].err = Nil
               /\ Len(ret[p].bucket) = 1
               /\ ret[p].bucket[1].DrainBy = arg[p].drainBy
               /\ ret[p].bucket[1].DrainInterval = arg[p].drainEvery
               /\ ret[p].bucket[1].Capacity = arg[p].capacity
               /\ ret[p].bucket[1].value = 0
               /\ ret[p].bucket[1].lastDrain = arg[p].at
               /\ ~IsZero(ret[p].bucket[1].lastDrain)

\* NewBucket has made a bucket some time after the program began.
C24_BucketMadeLater ==
    \E p \in Callers :
        /\ Done(p, "NewBucket")
        /\ ret[p].err = Nil
        /\ arg[p].at > 0
        /\ ret[p].bucket = <<Bucket(MaxDrainBy, MaxInterval, MaxCapacity, 0, arg[p].at)>>

\* C25: NewBucket fails with the 'bucket never drains' error and returns no
\* bucket when drainBy <= 0 or drainEvery <= 0, whatever the other arguments.
C25_NeverDrains ==
    \A p \in Callers :
        Done(p, "NewBucket") /\ (arg[p].drainBy <= 0 \/ arg[p].drainEvery <= 0)
            => /\ ret[p].err = "leaky: bucket never drains"
               /\ ret[p].bucket = <<>>

\* NewBucket has refused a drain interval of 0 with drainBy > 0 and a capacity
\* that is not valid either.
C25_ZeroIntervalRefused ==
    \E p \in Callers :
        /\ Done(p, "NewBucket")
        /\ arg[p].drainBy > 0
        /\ arg[p].drainEvery = 0
        /\ arg[p].capacity <= 0
        /\ ret[p].err = "leaky: bucket never drains"
        /\ ret[p].bucket = <<>>

\* C26 as stated: NewBucket fails with the 'bucket can never fill' error and
\* returns no bucket for any capacity <= 0.
C26_NeverFillsAlways ==
    \A p \in Callers :
        Done(p, "NewBucket") /\ arg[p].capacity <= 0
            => /\ ret[p].err = "leaky: bucket can never fill"
               /\ ret[p].bucket = <<>>

\* C26: NewBucket returns no bucket for any capacity <= 0; the error is the
\* 'bucket can never fill' error when drainBy > 0 and drainEvery > 0, and the
\* 'bucket never drains' error otherwise.
C26_NeverFills ==
    \A p \in Callers :
        Done(p, "NewBucket") /\ arg[p].capacity <= 0
            => /\ ret[p].bucket = <<>>
               /\ ret[p].err = IF arg[p].drainBy > 0 /\ arg[p].drainEvery > 0
                               THEN "leaky: bucket can never fill"
                               ELSE "leaky: bucket never drains"

\* NewBucket has refused a capacity of 0 with a valid drain.
C26_ZeroCapacityRefused ==
    \E p \in Callers :
        /\ Done(p, "NewBucket")
        /\ arg[p].drainBy > 0
        /\ arg[p].drainEvery > 0
        /\ arg[p].capacity = 0
        /\ ret[p].err = "leaky: bucket can never fill"
        /\ ret[p].bucket = <<>>

\* C27: Add's drain and its capacity check and commit take effect as one
\* atomic step: while a caller is between the two, no other caller's Set or
\* Add is applied to the bucket.
C27_AddIsOneAtomicStep ==
    [][\A p \in Callers : \A q \in Callers \ {p} :
          pc[p] = "Add" /\ pc[q] \in {"Set", "Add"} /\ pc'[q] = "done"
              => bucket' = bucket]_vars

\* C28: Value() and Remaining() read the value they return while holding the
\* lock of their own drain: between a caller's drain and its read, no other
\* caller's Add or Set changes the value, so the value returned is the one
\* the drain left.
C28_ValueReadUnderLock ==
    [][\A p \in Callers : \A q \in Callers \ {p} :
          pc[p] \in {"Value", "Remaining"} /\ pc[q] \in {"Add", "Set"}
                                           /\ pc'[q] = "done"
              => bucket'.value = bucket.value]_vars

\* Caller p is inside a call; it waits for the bucket's lock; it is where the
\* code holds the bucket's lock.
InCall(p) == pc[p] \notin {"idle", "done"}
AtLock(p) == pc[p] \in {"drain.Lock", "Lock"}
InLock(p) == pc[p] \in {"drain", "drain.Unlock", "locked", "Unlock"}

\* The lock is held only by a caller inside a locked section, so that no
\* caller has returned with it or waits for it while holding it, and it is
\* free whenever no call is in progress; the same for the lock of the bucket
\* DecodeBucket makes.
LockReleased ==
    /\ bucket.lock \in Callers \cup {Unlocked}
    /\ \A p \in Callers : bucket.lock = p => InLock(p)
    /\ (\A p \in Callers : ~InCall(p)) => bucket.lock = Unlocked
    /\ \A p \in Callers :
          /\ pc[p] = "new.Lock" => ret[p].bucket[1].lock = Unlocked
          /\ Done(p, "Decode") /\ ret[p].bucket # <<>>
                => ret[p].bucket[1].lock = Unlocked

\* C29: every operation that takes the lock releases it on every return
\* path, the error returns included, and none takes it while holding it;
\* hence, with concurrent callers, every call returns and the lock is free
\* whenever no call is in progress.
C29_LockReleasedAndCallsReturn ==
    /\ []LockReleased
    /\ \A p \in Callers : InCall(p) ~> pc[p] = "done"

\* A caller's Add has returned ErrBucketFull and the lock is free, while the
\* other caller waits at the Lock of its own call.
C29_FullReturnedLockFree ==
    \E p \in Callers : \E q \in Callers \ {p} :
        /\ Done(p, "Add")
        /\ ret[p].err = ErrBucketFull
        /\ bucket.lock = Unlocked
        /\ AtLock(q)

\* C30: under the non-decreasing clock lastDrain is never later than now in
\* any reachable state, and no step, a drain by Value, Remaining or Add or a
\* Set with either flag, moves lastDrain backwards.
C30_LastDrainMonotone ==
    /\ [](bucket.lastDrain <= now)
    /\ [][now' >= now /\ bucket'.lastDrain >= bucket.lastDrain]_vars

\* A drain by Value() has moved lastDrain forward by whole intervals and kept
\* a part of an interval: lastDrain is later than it was and earlier than the
\* instant of the drain.
C30_LastDrainAdvancedWithRemainder ==
    \E p \in Callers :
        /\ Done(p, "Value")
        /\ ~IsZero(arg[p].found.lastDrain)
        /\ arg[p].found.value > 0
        /\ arg[p].found.lastDrain < bucket.lastDrain
        /\ bucket.lastDrain < arg[p].at

\* C31: every call of Value(), Remaining(), Add and Set on a bucket that
\* DecodeBucket returned for a well-formed version-1 stream completes: no
\* call panics in drain() on a division by a zero DrainInterval.
C31_DecodedBucketReady == \A p \in Callers : pc[p] # "panic"

\* C32: an empty bucket accumulates no backlog.  The drain of a bucket with
\* value <= 0 sets value to 0 and lastDrain to now; so an Add(x), x > 0, that
\* found the bucket empty, however long it had been, leaves x, and a drain
\* less than one DrainInterval after the Add was called leaves x too: that
\* is what Value() returns then.
C32_EmptyBucketNoBacklog ==
    [][\A p \in Callers :
          /\ Drains(p) /\ bucket.value <= 0
             => bucket'.value = 0 /\ bucket'.lastDrain = now
          /\ pc[p] = "Add" /\ pc'[p] = "done" /\ ret'[p].err = Nil
             /\ arg[p].amount > 0 /\ arg[p].found.value <= 0
             => /\ bucket'.value = arg[p].amount
                /\ \A t \in now..MaxTime :
                      t - arg[p].at < bucket.DrainInterval
                      => drain(bucket', t).value = arg[p].amount]_vars

\* Add(x) found a bucket that had been empty for two intervals or more; time
\* has passed since, less than an interval, and a drain now leaves x.
C32_AddAfterLongIdle ==
    /\ Done("c1", "Add") /\ ret["c1"].err = Nil
    /\ arg["c1"].amount > 0
    /\ arg["c1"].found.value = 0 /\ ~IsZero(arg["c1"].found.lastDrain)
    /\ arg["c1"].at - arg["c1"].found.lastDrain >= 2 * arg["c1"].found.DrainInterval
    /\ now > arg["c1"].at /\ now - arg["c1"].at < bucket.DrainInterval
    /\ drain(bucket, now).value = arg["c1"].amount

\* C33: a bucket whose lastDrain is the zero time is taken as drained now.
\* The drain that Value(), Remaining() or Add() runs on it sets lastDrain to
\* now, a time that is not the zero time, and takes nothing from a value
\* above 0: Value() returns the value it found and Remaining() the Capacity
\* less that value.
C33_ZeroLastDrainIsNow ==
    [][\A p \in Callers :
          /\ Drains(p) /\ IsZero(bucket.lastDrain)
             => /\ bucket'.lastDrain = now
                /\ ~IsZero(bucket'.lastDrain)
                /\ bucket.value > 0 => bucket'.value = bucket.value
          /\ pc[p] \in {"Value", "Remaining"} /\ pc'[p] = "done"
             /\ IsZero(arg[p].found.lastDrain) /\ arg[p].found.value > 0
             => ret'[p].val = IF pc[p] = "Value"
                              THEN arg[p].found.value
                              ELSE arg[p].found.Capacity - arg[p].found.value]_vars

\* Value() has returned the whole value of a bucket whose lastDrain was the
\* zero time, an interval or more after the epoch, and lastDrain is the
\* instant of the call.
C33_FirstValueOfLiteral ==
    /\ Done("c1", "Value")
    /\ IsZero(arg["c1"].found.lastDrain)
    /\ arg["c1"].found.value > 0
    /\ arg["c1"].at >= arg["c1"].found.DrainInterval
    /\ ret["c1"].val = arg["c1"].found.value
    /\ bucket.lastDrain = arg["c1"].at

\* C34: Set(v, false) keeps the backlog.  With lastDrain set, a drain at any
\* instant t from the Set on leaves max(0, v - k * DrainBy), k the whole
\* intervals between lastDrain and t, those that elapsed before the Set
\* included: that is what the next Value() returns.
C34_SetFalseKeepsBacklog ==
    [][\A p \in Callers :
          pc[p] = "Set" /\ pc'[p] = "done" /\ ~arg[p].resetDrain
          /\ ~IsZero(bucket.lastDrain)
          => /\ bucket'.lastDrain = bucket.lastDrain
             /\ \A t \in now..MaxTime :
                   drain(bucket', t).value =
                      Max(0, arg[p].value
                               - bucket.DrainBy
                                 * ((t - bucket.lastDrain) \div bucket.DrainInterval))]_vars

\* Set(v, false) has stored v > 0 an interval or more after lastDrain, and a
\* drain at the present instant takes the intervals before the Set from v.
C34_BacklogTakenFromNewValue ==
    /\ Done("c1", "Set") /\ ret["c1"].err = Nil
    /\ ~arg["c1"].resetDrain
    /\ arg["c1"].value > 0 /\ bucket.value = arg["c1"].value
    /\ ~IsZero(bucket.lastDrain)
    /\ arg["c1"].at - bucket.lastDrain >= bucket.DrainInterval
    /\ drain(bucket, now).value =
          Max(0, arg["c1"].value
                   - bucket.DrainBy * ((arg["c1"].at - bucket.lastDrain) \div bucket.DrainInterval))
    /\ drain(bucket, now).value < arg["c1"].value

\* C35: a value above Capacity, left there when the owner lowers Capacity, is
\* not cut down to Capacity and does not grow.  While value > Capacity no step
\* raises the value, every Add of an amount above 0 fails with ErrBucketFull
\* and leaves the bucket as it is, every Set of a value above Capacity fails
\* and leaves it too, and the value changes only in the drain a call runs, in
\* an Add of a negative amount (Drain of a positive one) and in a Set that
\* succeeds.
C35_OverCapacityNeverGrows ==
    [][bucket.value > bucket.Capacity
       => /\ bucket'.value <= bucket.value
          /\ \A p \in Callers :
                /\ pc[p] = "Add" /\ pc'[p] = "done" /\ arg[p].amount > 0
                   => ret'[p].err = ErrBucketFull /\ bucket' = bucket
                /\ pc[p] = "Drain" /\ pc'[p] = "done" /\ arg[p].amount < 0
                   => ret'[p].err = ErrBucketFull /\ bucket' = bucket
                /\ Sets(p) /\ arg'[p].value > bucket.Capacity
                   => pc'[p] = "done" /\ ret'[p].err = ErrExceeds /\ bucket' = bucket
          /\ bucket'.value # bucket.value
             => \E p \in Callers :
                   \/ Drains(p) /\ bucket'.value = Drained(bucket, now)
                   \/ pc[p] = "idle" /\ pc'[p] = "Drain" /\ bucket'.value = Drained(bucket, now)
                   \/ pc[p] = "Add" /\ pc'[p] = "done" /\ arg[p].amount < 0
                   \/ pc[p] = "Drain" /\ pc'[p] = "done" /\ arg[p].amount > 0
                   \/ pc[p] = "Set" /\ pc'[p] = "done" /\ ret'[p].err = Nil]_vars

\* The owner has lowered Capacity below the value; an Add of an amount above
\* 0 found the value above Capacity, no drain due, was refused, and the value
\* is above Capacity still.
C35_AddRefusedOverCapacity ==
    /\ Done("c1", "Add") /\ ret["c1"].err = ErrBucketFull
    /\ arg["c1"].amount > 0
    /\ arg["c1"].found.value > arg["c1"].found.Capacity
    /\ bucket.value = arg["c1"].found.value
    /\ bucket.value > bucket.Capacity

\* C36: a bucket with a valid configuration into which, from some instant on,
\* no amount above 0 is added and no value is set, while the clock advances
\* and Value() is called again and again, at any spacing, is empty in the
\* end: value becomes 0 and is 0 from then on.
C36_DrainsToZero == <>[](bucket.value = 0)

\* C37: Add of an amount above 0 is right over the whole int64 range: it
\* fails with ErrBucketFull whenever the sum of value and amount, taken as
\* numbers, exceeds Capacity, also when the int64 sum wraps around, and an
\* Add that succeeds does not lower the value.
C37_AddOverWholeRange ==
    [][\A p \in Callers :
          pc[p] = "Add" /\ pc'[p] = "done" /\ arg[p].amount > 0
          => /\ bucket.value + arg[p].amount > bucket.Capacity
                => ret'[p].err = ErrBucketFull /\ bucket' = bucket
             /\ ret'[p].err = Nil => bucket'.value >= bucket.value]_vars

====
